---- MODULE Spec2Model ----
(***************************************************************************)
(* NPHeap pseudo device (kernel_module/src/ioctl.c): the red-black tree    *)
(* index keyed by offset (my_search, my_insert, rb_erase), the mmap file   *)
(* operation, and the four ioctl commands LOCK, UNLOCK, GETSIZE, DELETE.   *)
(*                                                                         *)
(* unsigned long / long long are 64 bits wide in the build (LP64); the     *)
(* model keeps the two's complement arithmetic at a narrower word, Width.  *)
(***************************************************************************)
EXTENDS Integers, Sequences, FiniteSets, TLC

\* ------------------------------------------------------------------ bounds
\* Word width of unsigned long / long long in the model (64 in the build).
Width == 16
\* Number of struct mytype records that can be allocated at one time.
MaxNodes == 3
\* Number of user threads issuing calls on the device.
NumThreads == 3
\* Number of live mappings (VMAs) of one offset at one time.
MaxMaps == 1
\* Number of callers followed step by step inside npheap_mmap, and of callers
\* whose touches of a mapping are recorded.
MaxCallers == 2

\* --------------------------------------------------------------- constants
PAGE_SHIFT == 12

Pow2(n) == 2 ^ n
PAGE_SIZE == Pow2(PAGE_SHIFT)
Modulus == Pow2(Width)
Half == Pow2(Width - 1)

NULL == 0
RB_RED == 0
RB_BLACK == 1

NodeIds == 1 .. MaxNodes
Threads == 1 .. NumThreads
Callers == 1 .. MaxCallers

\* vm_pgoff values of the mapping requests: the first two pages, and the
\* page whose byte offset is Half.
PgOffs == {0, 1, Half \div PAGE_SIZE}
\* byte offsets (tree keys) the callers use
Offsets == {(p * PAGE_SIZE) % Modulus : p \in PgOffs}
\* mapping lengths vm_end - vm_start
Sizes == {PAGE_SIZE, 2 * PAGE_SIZE}
\* node_cmd.size of the records handed to my_insert
RecordSizes == {PAGE_SIZE}

\* ------------------------------------------------- two's complement words
\* An unsigned long value wraps modulo 2^Width.
ToUnsigned(x) == x % Modulus
\* The value of an unsigned word read as a signed (long long) one.
ToSigned(x) == IF x >= Half THEN x - Modulus ELSE x

\* long long result = keystring - data->keystring;
KeyDiff(a, b) == ToSigned(ToUnsigned(a - b))

\* ------------------------------------------------------------- the rb tree
\* A tree is [root |-> node id or NULL, n |-> [NodeIds -> node record]].
\* A struct mytype: the embedded rb_node (parent, color, left, right), the
\* key and the size kept in node_cmd.
FreeNode ==
  [alloc |-> FALSE, parent |-> NULL, color |-> RB_RED, left |-> NULL,
   right |-> NULL, keystring |-> 0, size |-> 0]

RB_ROOT == [root |-> NULL, n |-> [i \in NodeIds |-> FreeNode]]

Other(d) == IF d = "left" THEN "right" ELSE "left"

rb_set_parent_color(T, rb, p, color) ==
  [T EXCEPT !.n[rb].parent = p, !.n[rb].color = color]

rb_set_parent(T, rb, p) == [T EXCEPT !.n[rb].parent = p]

__rb_change_child(T, old, new, parent) ==
  IF parent # NULL
    THEN IF T.n[parent].left = old
           THEN [T EXCEPT !.n[parent].left = new]
           ELSE [T EXCEPT !.n[parent].right = new]
    ELSE [T EXCEPT !.root = new]

\* new takes old's place (parent link and color), old becomes new's child
\* with the given color.
__rb_rotate_set_parents(T, old, new, color) ==
  LET parent == T.n[old].parent
      T1 == [T EXCEPT !.n[new].parent = T.n[old].parent,
                      !.n[new].color = T.n[old].color]
      T2 == rb_set_parent_color(T1, old, new, color)
  IN  __rb_change_child(T2, old, new, parent)

\* The loop of __rb_insert: node is red, parent is its parent.
RECURSIVE __rb_insert(_, _, _)
__rb_insert(T, node, parent) ==
  IF parent = NULL
    THEN rb_set_parent_color(T, node, NULL, RB_BLACK)
  ELSE IF T.n[parent].color = RB_BLACK
    THEN T
  ELSE
    LET gparent == T.n[parent].parent
        d == IF parent # T.n[gparent].right THEN "left" ELSE "right"
        o == Other(d)
        uncle == T.n[gparent][o]
    IN  IF uncle # NULL /\ T.n[uncle].color = RB_RED
          THEN \* Case 1: color flips, continue at gparent
            LET T1 == rb_set_parent_color(T, uncle, gparent, RB_BLACK)
                T2 == rb_set_parent_color(T1, parent, gparent, RB_BLACK)
                gp == T2.n[gparent].parent
                T3 == rb_set_parent_color(T2, gparent, gp, RB_RED)
            IN  __rb_insert(T3, gparent, gp)
          ELSE
            LET inner == (node = T.n[parent][o])
                \* Case 2: rotate at parent
                tmp2 == T.n[node][d]
                Ta == [T EXCEPT !.n[parent][o] = tmp2, !.n[node][d] = parent]
                Tb == IF tmp2 # NULL
                        THEN rb_set_parent_color(Ta, tmp2, parent, RB_BLACK)
                        ELSE Ta
                Tc == rb_set_parent_color(Tb, parent, node, RB_RED)
                T2 == IF inner THEN Tc ELSE T
                p2 == IF inner THEN node ELSE parent
                \* Case 3: rotate at gparent
                tmp3 == T2.n[p2][o]
                Td == [T2 EXCEPT !.n[gparent][d] = tmp3, !.n[p2][o] = gparent]
                Te == IF tmp3 # NULL
                        THEN rb_set_parent_color(Td, tmp3, gparent, RB_BLACK)
                        ELSE Td
            IN  __rb_rotate_set_parents(Te, gparent, p2, RB_RED)

\* rb_link_node(node, parent, rb_link): node is red, has no children.
rb_link_node(T, node, parent, d) ==
  LET T1 == [T EXCEPT !.n[node].parent = parent, !.n[node].color = RB_RED,
                      !.n[node].left = NULL, !.n[node].right = NULL]
  IN  IF parent = NULL THEN [T1 EXCEPT !.root = node]
      ELSE [T1 EXCEPT !.n[parent][d] = node]

rb_insert_color(T, node) == __rb_insert(T, node, T.n[node].parent)

\* __rb_erase_augmented: unlinks node; the result's rebalance is the node
\* at which ____rb_erase_color has to start, or NULL.
RECURSIVE LeftMost(_, _)
LeftMost(T, x) == IF T.n[x].left = NULL THEN x ELSE LeftMost(T, T.n[x].left)

__rb_erase_augmented(T, node) ==
  LET child == T.n[node].right
      tmp == T.n[node].left
      pparent == T.n[node].parent
      pcolor == T.n[node].color
  IN  IF tmp = NULL
        THEN \* Case 1: no more than one child, the right one
          LET T1 == __rb_change_child(T, node, child, pparent)
          IN  IF child # NULL
                THEN [t |-> rb_set_parent_color(T1, child, pparent, pcolor),
                      rebalance |-> NULL]
                ELSE [t |-> T1,
                      rebalance |-> IF pcolor = RB_BLACK THEN pparent ELSE NULL]
      ELSE IF child = NULL
        THEN \* Still case 1, the child is node->rb_left
          LET T1 == rb_set_parent_color(T, tmp, pparent, pcolor)
          IN  [t |-> __rb_change_child(T1, node, tmp, pparent),
               rebalance |-> NULL]
      ELSE
        LET successor == LeftMost(T, child)
            direct == (T.n[child].left = NULL)
            \* Case 2: the successor is node's right child;
            \* Case 3: it is the leftmost node under node's right child
            parent == IF direct THEN successor ELSE T.n[successor].parent
            child2 == T.n[successor].right
            T1 == IF direct THEN T
                  ELSE rb_set_parent(
                         [T EXCEPT !.n[parent].left = child2,
                                   !.n[successor].right = child],
                         child, successor)
            T2 == rb_set_parent([T1 EXCEPT !.n[successor].left = tmp],
                                tmp, successor)
            T3 == __rb_change_child(T2, node, successor, pparent)
            color2 == T3.n[successor].color
            T4 == rb_set_parent_color(T3, successor, pparent, pcolor)
        IN  IF child2 # NULL
              THEN [t |-> rb_set_parent_color(T4, child2, parent, RB_BLACK),
                    rebalance |-> NULL]
              ELSE [t |-> T4,
                    rebalance |-> IF color2 = RB_BLACK THEN parent ELSE NULL]

IsBlackOrNull(T, x) == x = NULL \/ T.n[x].color = RB_BLACK

\* The loop of ____rb_erase_color: node is black (or NULL), parent is its
\* parent, the paths through node are one black node short.
RECURSIVE ____rb_erase_color(_, _, _)
____rb_erase_color(T, node, parent) ==
  LET d == IF node # T.n[parent].right THEN "left" ELSE "right"
      o == Other(d)
      sibling0 == T.n[parent][o]
      red == (T.n[sibling0].color = RB_RED)
      \* Case 1: the sibling is red, rotate at parent
      near0 == T.n[sibling0][d]
      Ta == rb_set_parent_color(
              [T EXCEPT !.n[parent][o] = near0, !.n[sibling0][d] = parent],
              near0, parent, RB_BLACK)
      T1 == IF red THEN __rb_rotate_set_parents(Ta, parent, sibling0, RB_RED)
            ELSE T
      sibling == IF red THEN near0 ELSE sibling0
      far == T1.n[sibling][o]
      near == T1.n[sibling][d]
  IN  IF IsBlackOrNull(T1, far) /\ IsBlackOrNull(T1, near)
        THEN \* Case 2: sibling color flip
          LET T2 == rb_set_parent_color(T1, sibling, parent, RB_RED)
          IN  IF T2.n[parent].color = RB_RED
                THEN [T2 EXCEPT !.n[parent].color = RB_BLACK]
                ELSE IF T2.n[parent].parent # NULL
                       THEN ____rb_erase_color(T2, parent, T2.n[parent].parent)
                       ELSE T2
        ELSE
          LET inner == IsBlackOrNull(T1, far)
              \* Case 3: rotate at sibling
              tmp1 == T1.n[near][o]
              Tb == [T1 EXCEPT !.n[sibling][d] = tmp1, !.n[near][o] = sibling,
                               !.n[parent][o] = near]
              Tc == IF tmp1 # NULL
                      THEN rb_set_parent_color(Tb, tmp1, sibling, RB_BLACK)
                      ELSE Tb
              T3 == IF inner THEN Tc ELSE T1
              far4 == IF inner THEN sibling ELSE far
              sib4 == IF inner THEN near ELSE sibling
              \* Case 4: rotate at parent and flip colors
              tmp2 == T3.n[sib4][d]
              Td == [T3 EXCEPT !.n[parent][o] = tmp2, !.n[sib4][d] = parent]
              Te == rb_set_parent_color(Td, far4, sib4, RB_BLACK)
              Tf == IF tmp2 # NULL THEN rb_set_parent(Te, tmp2, parent) ELSE Te
          IN  __rb_rotate_set_parents(Tf, parent, sib4, RB_BLACK)

\* void rb_erase(struct rb_node *victim, struct rb_root *tree)
rb_erase(T, node) ==
  LET r == __rb_erase_augmented(T, node)
  IN  IF r.rebalance # NULL
        THEN ____rb_erase_color(r.t, NULL, r.rebalance)
        ELSE r.t

\* --------------------------------------------------- my_search, my_insert
RECURSIVE SearchFrom(_, _, _)
SearchFrom(T, node, keystring) ==
  IF node = NULL THEN NULL
  ELSE LET result == KeyDiff(keystring, T.n[node].keystring)
       IN  IF result < 0 THEN SearchFrom(T, T.n[node].left, keystring)
           ELSE IF result > 0 THEN SearchFrom(T, T.n[node].right, keystring)
           ELSE node

my_search(T, keystring) == SearchFrom(T, T.root, keystring)

\* The descent of my_insert from *new with parent above it: where to link
\* data, or found when the key is already met on the way down.
RECURSIVE InsertFrom(_, _, _, _, _)
InsertFrom(T, this, parent, d, data) ==
  IF this = NULL THEN [found |-> FALSE, parent |-> parent, d |-> d]
  ELSE LET result == KeyDiff(T.n[data].keystring, T.n[this].keystring)
       IN  IF result < 0 THEN InsertFrom(T, T.n[this].left, this, "left", data)
           ELSE IF result > 0
             THEN InsertFrom(T, T.n[this].right, this, "right", data)
           ELSE [found |-> TRUE, parent |-> this, d |-> d]

my_insert(T, data) ==
  LET w == InsertFrom(T, T.root, NULL, "left", data)
  IN  IF w.found THEN [ret |-> 0, t |-> T]
      ELSE [ret |-> 1,
            t |-> rb_insert_color(rb_link_node(T, data, w.parent, w.d), data)]

\* ---------------------------------------------------------------- state
VARIABLES
  mytree,   \* struct rb_root mytree and the struct mytype records linked in it
  np_lock,  \* the mutex: [locked, owner, wait_list]
  pc,       \* per thread: "user", or "sleeping" / "running" inside mutex_lock
  vmas,     \* per offset: the live mappings the host kernel holds
  last,     \* the call that made the last step, and what it returned
  cmp,      \* one evaluation of the key comparison: [a, b, result, done]
  holds,    \* the callers whose LOCK returned and who have not issued UNLOCK
  faulters, \* per offset: [c, page], the page each caller's touch of page 0 got
  req       \* per caller: its position inside npheap_mmap

vars == <<mytree, np_lock, pc, vmas, last, cmp, holds, faulters, req>>
\* what only the step-by-step mapping requests and the touches change
aux == <<faulters, req>>

NoCall == [op |-> "none", t |-> 0, offset |-> 0, size |-> 0, ret |-> 0]
Call(op, t, offset, size, ret) ==
  [op |-> op, t |-> t, offset |-> offset, size |-> size, ret |-> ret]

NoCmp == [a |-> 0, b |-> 0, result |-> 0, done |-> FALSE]

\* static DEFINE_MUTEX(np_lock): unlocked, nobody waiting
DEFINE_MUTEX == [locked |-> FALSE, owner |-> 0, wait_list |-> <<>>]

\* A caller with no mapping and outside npheap_mmap.
NoReq == [st |-> "idle", offset |-> 0, found |-> FALSE]

Init ==
  /\ mytree = RB_ROOT
  /\ np_lock = DEFINE_MUTEX
  /\ pc = [t \in Threads |-> "user"]
  /\ vmas = [o \in Offsets |-> 0]
  /\ last = NoCall
  /\ cmp = NoCmp
  /\ holds = {}
  /\ faulters = [o \in Offsets |-> {}]
  /\ req = [c \in Callers |-> NoReq]

\* A variant of CanCall under which a call also needs the mutex free.
CanCallUnlocked ==
  {t \in Threads : pc[t] = "user"} # {} /\ ~np_lock.locked

\* Some thread is in user mode, so it can issue a call.
CanCall == {t \in Threads : pc[t] = "user"} # {}

\* ---------------------------------------------------- the index, directly
\* The records linked in the tree, and those with a given key.
InTree(T) == {i \in NodeIds : T.n[i].alloc}
WithKey(T, k) == {i \in InTree(T) : T.n[i].keystring = k}

\* kmalloc: the lowest free record
Alloc(T) == CHOOSE i \in NodeIds : ~T.n[i].alloc /\
                \A j \in NodeIds : ~T.n[j].alloc => i <= j

\* A caller allocates a struct mytype for (k, s) and hands it to my_insert;
\* a record my_insert refuses (return 0) is freed again.
MyInsert(k, s) ==
  /\ CanCall
  /\ \E i \in NodeIds : ~mytree.n[i].alloc
  /\ LET data == Alloc(mytree)
         T0 == [mytree EXCEPT !.n[data] =
                  [FreeNode EXCEPT !.alloc = TRUE, !.keystring = k, !.size = s]]
         r == my_insert(T0, data)
     IN  /\ mytree' = IF r.ret = 1 THEN r.t ELSE mytree
         /\ last' = Call("my_insert", 0, k, s, r.ret)
  /\ UNCHANGED <<np_lock, pc, vmas, cmp, holds, aux>>

\* The documented use of rb_erase: data = my_search(k); if (data) {
\* rb_erase(&data->node, &mytree); myfree(data); }
EraseKey(T, k) ==
  LET data == my_search(T, k)
  IN  IF data # NULL
        THEN [rb_erase(T, data) EXCEPT !.n[data] = FreeNode]
        ELSE T

RbErase(k) ==
  /\ CanCall
  /\ mytree' = EraseKey(mytree, k)
  /\ last' = Call("rb_erase", 0, k, 0, IF my_search(mytree, k) # NULL THEN 1 ELSE 0)
  /\ UNCHANGED <<np_lock, pc, vmas, cmp, holds, aux>>

\* ------------------------------------------------------------ the device
\* A mapping request as the host kernel hands it to npheap_mmap.
VMAs == {[vm_pgoff |-> p, vm_start |-> PAGE_SIZE, vm_end |-> PAGE_SIZE + s] :
           p \in PgOffs, s \in Sizes}

vma_offset(vma) == ToUnsigned(vma.vm_pgoff * PAGE_SIZE)
vma_size(vma) == vma.vm_end - vma.vm_start

\* A variant of npheap_mmap that stores the request's size in the record
\* it finds.
npheap_mmap_resize(T, vma) ==
  LET data == my_search(T, vma_offset(vma))
  IN  IF data = NULL THEN [ret |-> 0, t |-> T]
      ELSE [ret |-> 0, t |-> [T EXCEPT !.n[data].size = vma_size(vma)]]

\* int npheap_mmap(filp, vma): looks the offset up; both branches are empty.
npheap_mmap(T, vma) ==
  LET offset == vma_offset(vma)
      size == vma_size(vma)
  IN  IF my_search(T, offset) = NULL
        THEN [ret |-> 0, t |-> T]
        ELSE [ret |-> 0, t |-> T]

\* long npheap_getsize(user_cmd)
npheap_getsize(T, user_cmd) == 0

\* A variant of npheap_delete that erases the record and reports an offset
\* it does not find as an error.
npheap_delete_strict(T, user_cmd) ==
  IF my_search(T, user_cmd.offset) = NULL
    THEN [ret |-> -1, t |-> T]
    ELSE [ret |-> 0, t |-> EraseKey(T, user_cmd.offset)]

\* long npheap_delete(user_cmd)
npheap_delete(T, user_cmd) == [ret |-> 0, t |-> T]

\* mmap(2) on the device: the mapping exists once npheap_mmap returned 0.
Mmap(vma) ==
  /\ CanCall
  /\ vmas[vma_offset(vma)] < MaxMaps
  /\ LET r == npheap_mmap(mytree, vma)
     IN  /\ mytree' = r.t
         /\ vmas' = IF r.ret = 0
                      THEN [vmas EXCEPT ![vma_offset(vma)] = @ + 1]
                      ELSE vmas
         /\ last' = Call("mmap", 0, vma_offset(vma), vma_size(vma), r.ret)
  /\ UNCHANGED <<np_lock, pc, cmp, holds, aux>>

\* munmap(2): the host kernel drops the mapping; the device has no
\* vm_operations, so none of its code runs.
Munmap(o) ==
  /\ CanCall
  /\ vmas[o] > 0
  /\ vmas' = [vmas EXCEPT ![o] = @ - 1]
  /\ last' = Call("munmap", 0, o, 0, 0)
  /\ UNCHANGED <<mytree, np_lock, pc, cmp, holds, aux>>

\* ioctl(NPHEAP_IOCTL_GETSIZE)
Getsize(o) ==
  /\ CanCall
  /\ last' = Call("getsize", 0, o, 0, npheap_getsize(mytree, [offset |-> o]))
  /\ UNCHANGED <<mytree, np_lock, pc, vmas, cmp, holds, aux>>

\* ioctl(NPHEAP_IOCTL_DELETE)
Delete(o) ==
  /\ CanCall
  /\ LET r == npheap_delete(mytree, [offset |-> o])
     IN  /\ mytree' = r.t
         /\ last' = Call("delete", 0, o, 0, r.ret)
  /\ UNCHANGED <<np_lock, pc, vmas, cmp, holds, aux>>

\* --------------------------------------------------------------- the lock
\* mutex_lock takes the mutex when it is not locked.
mutex_trylock_any(l) == TRUE
mutex_trylock(l) == ~l.locked

\* mutex_unlock wakes the first task on the wait list.
mutex_wake_all(l) == {l.wait_list[i] : i \in 1 .. Len(l.wait_list)}
mutex_wake(l) == IF l.wait_list = <<>> THEN {} ELSE {Head(l.wait_list)}

Without(q, t) == SelectSeq(q, LAMBDA x : x # t)

\* ioctl(NPHEAP_IOCTL_LOCK): mutex_lock(&np_lock); return 0.  A caller that
\* finds the mutex locked queues itself and sleeps inside the call.
Lock(t) ==
  /\ pc[t] = "user"
  /\ IF mutex_trylock(np_lock)
       THEN /\ np_lock' = [np_lock EXCEPT !.locked = TRUE, !.owner = t]
            /\ pc' = pc
            /\ holds' = holds \cup {t}
            /\ last' = Call("lock", t, 0, 0, 0)
       ELSE /\ np_lock' = [np_lock EXCEPT !.wait_list = Append(@, t)]
            /\ pc' = [pc EXCEPT ![t] = "sleeping"]
            /\ holds' = holds
            /\ last' = Call("lock_sleep", t, 0, 0, 0)
  /\ UNCHANGED <<mytree, vmas, cmp, aux>>

\* A woken waiter tries again: it takes the mutex, leaves the wait list and
\* returns 0, or goes back to sleep.
LockRetry(t) ==
  /\ pc[t] = "running"
  /\ IF mutex_trylock(np_lock)
       THEN /\ np_lock' = [locked |-> TRUE, owner |-> t,
                           wait_list |-> Without(np_lock.wait_list, t)]
            /\ pc' = [pc EXCEPT ![t] = "user"]
            /\ holds' = holds \cup {t}
            /\ last' = Call("lock", t, 0, 0, 0)
       ELSE /\ np_lock' = np_lock
            /\ pc' = [pc EXCEPT ![t] = "sleeping"]
            /\ holds' = holds
            /\ last' = Call("lock_sleep", t, 0, 0, 0)
  /\ UNCHANGED <<mytree, vmas, cmp, aux>>

\* A variant of npheap_unlock that lets only the owner release the mutex.
npheap_unlock_owner(l, current) ==
  IF l.owner = current
    THEN [ret |-> 0, l |-> [l EXCEPT !.locked = FALSE, !.owner = 0],
          wake |-> mutex_wake(l)]
    ELSE [ret |-> -1, l |-> l, wake |-> {}]

\* long npheap_unlock(user_cmd): mutex_unlock(&np_lock); return 0.  No holder
\* is checked: the mutex is released whoever calls.
npheap_unlock(l, current) ==
  [ret |-> 0, l |-> [l EXCEPT !.locked = FALSE, !.owner = 0],
   wake |-> mutex_wake(l)]

\* ioctl(NPHEAP_IOCTL_UNLOCK)
Unlock(t) ==
  /\ pc[t] = "user"
  /\ LET r == npheap_unlock(np_lock, t)
     IN  /\ np_lock' = r.l
         /\ pc' = [u \in Threads |-> IF u \in r.wake THEN "running" ELSE pc[u]]
         /\ last' = Call("unlock", t, 0, 0, r.ret)
  /\ holds' = holds \ {t}
  /\ UNCHANGED <<mytree, vmas, cmp, aux>>

\* ------------------------------------------------------- the comparison
\* The keys the comparison is evaluated on.
CmpKeys ==
  {0, 1, PAGE_SIZE, Half - PAGE_SIZE, Half - 1, Half, Half + 1,
   Half + PAGE_SIZE, Modulus - PAGE_SIZE, Modulus - 1}

Compare ==
  /\ ~cmp.done
  /\ cmp' = [cmp EXCEPT !.result = KeyDiff(cmp.a, cmp.b), !.done = TRUE]
  /\ UNCHANGED <<mytree, np_lock, pc, vmas, last, holds, aux>>

InitCmp ==
  /\ mytree = RB_ROOT
  /\ np_lock = DEFINE_MUTEX
  /\ pc = [t \in Threads |-> "user"]
  /\ vmas = [o \in Offsets |-> 0]
  /\ last = NoCall
  /\ cmp \in [a : CmpKeys, b : CmpKeys, result : {0}, done : {FALSE}]
  /\ holds = {}
  /\ faulters = [o \in Offsets |-> {}]
  /\ req = [c \in Callers |-> NoReq]

\* ------------------------------------------- mapping requests, step by step
\* npheap_mmap takes no lock, so the requests of two callers interleave
\* between its statements. First half: offset, size and the lookup.
MmapLookup(c, vma) ==
  /\ req[c].st = "idle"
  /\ req' = [req EXCEPT ![c] =
               [st |-> "looked", offset |-> vma_offset(vma),
                found |-> my_search(mytree, vma_offset(vma)) # NULL]]
  /\ last' = Call("mmap_lookup", c, vma_offset(vma), vma_size(vma), 0)
  /\ UNCHANGED <<mytree, np_lock, pc, vmas, cmp, holds, faulters>>

\* Second half: the branch taken on the lookup's result (both are empty)
\* and return 0, after which the host kernel keeps the mapping.
MmapReturn(c) ==
  /\ req[c].st = "looked"
  /\ mytree' = IF req[c].found THEN mytree ELSE mytree
  /\ req' = [req EXCEPT ![c].st = "mapped"]
  /\ vmas' = [vmas EXCEPT ![req[c].offset] = @ + 1]
  /\ last' = Call("mmap", c, req[c].offset, 0, 0)
  /\ UNCHANGED <<np_lock, pc, cmp, holds, faulters>>

\* The pages a touch of a mapped address can get. npheap_mmap installs no
\* vm_operations and maps no page (no remap_pfn_range, no fault handler),
\* so the host kernel resolves the touch by itself: it either refuses it
\* (SIGBUS, no page: NULL) or gives the caller a zero page of its own, here
\* numbered by the caller. The record's own pages play no part.
TouchPages(c) == {NULL, c}

\* Caller c touches page 0 of its mapping.
Touch(c) ==
  /\ req[c].st = "mapped"
  /\ \E page \in TouchPages(c) :
       /\ faulters' = [faulters EXCEPT ![req[c].offset] =
                         {f \in @ : f.c # c} \cup {[c |-> c, page |-> page]}]
       /\ last' = Call("fault", c, req[c].offset, 0, page)
  /\ UNCHANGED <<mytree, np_lock, pc, vmas, cmp, holds, req>>

\* Caller c unmaps: the host kernel drops the mapping and its pages.
CallerMunmap(c) ==
  /\ req[c].st = "mapped"
  /\ req' = [req EXCEPT ![c] = NoReq]
  /\ vmas' = [vmas EXCEPT ![req[c].offset] = @ - 1]
  /\ faulters' = [faulters EXCEPT ![req[c].offset] = {f \in @ : f.c # c}]
  /\ last' = Call("munmap", c, req[c].offset, 0, 0)
  /\ UNCHANGED <<mytree, np_lock, pc, cmp, holds>>

\* ------------------------------------------------------- specifications
NextIndex ==
  \/ \E k \in Offsets, s \in RecordSizes : MyInsert(k, s)
  \/ \E k \in Offsets : RbErase(k)
  \/ \E vma \in VMAs : Mmap(vma)
  \/ \E o \in Offsets : Munmap(o)
  \/ \E o \in Offsets : Getsize(o)
  \/ \E o \in Offsets : Delete(o)

NextLock ==
  \/ \E t \in Threads : Lock(t)
  \/ \E t \in Threads : LockRetry(t)
  \/ \E t \in Threads : Unlock(t)

\* The requests issued next to the lock: with no record ever inserted every
\* offset is looked up alike, so two page offsets stand for all.
DevicePgOffs == {0, 1}
DeviceVMAs == {vma \in VMAs : vma.vm_pgoff \in DevicePgOffs}
DeviceOffsets == {vma_offset(vma) : vma \in DeviceVMAs}

NextDevice ==
  \/ \E t \in Threads : Lock(t)
  \/ \E t \in Threads : LockRetry(t)
  \/ \E t \in Threads : Unlock(t)
  \/ \E o \in DeviceOffsets : Getsize(o)
  \/ \E o \in DeviceOffsets : Delete(o)
  \/ \E vma \in DeviceVMAs : Mmap(vma)

NextMap ==
  \/ \E k \in Offsets, s \in RecordSizes : MyInsert(k, s)
  \/ \E c \in Callers, vma \in VMAs : MmapLookup(c, vma)
  \/ \E c \in Callers : MmapReturn(c)
  \/ \E c \in Callers : Touch(c)
  \/ \E c \in Callers : CallerMunmap(c)

Next == NextIndex \/ NextLock \/ NextMap

\* The whole device.
Spec == Init /\ [][Next]_vars
\* The index and the mappings, with the lock left alone.
SpecIndex == Init /\ [][NextIndex]_vars
\* The lock alone.
SpecLock == Init /\ [][NextLock]_vars
\* The device as its file operations drive it: the lock and the calls that
\* do not take it.
SpecDevice == Init /\ [][NextDevice]_vars
\* Callers with a mapping each: requests step by step, touches, records.
SpecMap == Init /\ [][NextMap]_vars
\* The key comparison on its own.
SpecCmp == InitCmp /\ [][Compare]_vars

\* --------------------------------------------------------- well-formedness
RECURSIVE Reach(_, _)
Reach(T, x) ==
  IF x = NULL THEN {} ELSE {x} \cup Reach(T, T.n[x].left) \cup Reach(T, T.n[x].right)

RECURSIVE BlackHeight(_, _)
BlackHeight(T, x) ==
  IF x = NULL THEN 1
  ELSE LET l == BlackHeight(T, T.n[x].left)
           r == BlackHeight(T, T.n[x].right)
       IN  IF l = -1 \/ r = -1 \/ l # r THEN -1
           ELSE l + (IF T.n[x].color = RB_BLACK THEN 1 ELSE 0)

\* The red-black shape: every allocated record is linked, parents match,
\* no red node has a red child, black heights agree.
RbShape ==
  /\ Reach(mytree, mytree.root) = InTree(mytree)
  /\ mytree.root # NULL => mytree.n[mytree.root].parent = NULL
                           /\ mytree.n[mytree.root].color = RB_BLACK
  /\ \A i \in InTree(mytree) :
       /\ mytree.n[i].left # NULL => mytree.n[mytree.n[i].left].parent = i
       /\ mytree.n[i].right # NULL => mytree.n[mytree.n[i].right].parent = i
       /\ mytree.n[i].color = RB_RED =>
            /\ IsBlackOrNull(mytree, mytree.n[i].left)
            /\ IsBlackOrNull(mytree, mytree.n[i].right)
  /\ BlackHeight(mytree, mytree.root) # -1

\* ================================================================ claims
\* The Region of offset o, as the index holds it.
Regions(o) == WithKey(mytree, o)
\* ref_count of offset o: the number of live mappings of it.
ref_count(o) == vmas[o]

\* C1: after a successful mapping request for an offset that is not in the
\* index, the index holds a Region for that offset, my_search finds it, and
\* its size is the size of the request.
C1_MmapCreatesRegion ==
  [][(last'.op = "mmap" /\ last'.ret = 0 /\ Regions(last'.offset) = {}) =>
       LET data == my_search(mytree', last'.offset)
       IN  data # NULL /\ mytree'.n[data].size = last'.size]_vars

\* C2: GETSIZE(offset) returns the size of the Region at that offset when
\* the offset is in the index, 0 when it is not, and changes no state.
C2_GetsizeReturnsSize ==
  [][last'.op = "getsize" =>
       /\ IF Regions(last'.offset) # {}
            THEN \E i \in Regions(last'.offset) : last'.ret = mytree.n[i].size
            ELSE last'.ret = 0
       /\ UNCHANGED <<mytree, np_lock, pc, vmas>>]_vars

\* C3: DELETE on an offset whose Region has ref_count > 0 fails (does not
\* return 0) and leaves the index and the ref_count unchanged.
C3_DeleteBusyFails ==
  [][(last'.op = "delete" /\ Regions(last'.offset) # {}
        /\ ref_count(last'.offset) > 0) =>
       (last'.ret # 0 /\ mytree' = mytree /\ vmas' = vmas)]_vars

\* C4: DELETE on an offset whose Region has ref_count = 0 returns 0 and
\* removes the Region from the index.
C4_DeleteRemoves ==
  [][(last'.op = "delete" /\ Regions(last'.offset) # {}
        /\ ref_count(last'.offset) = 0) =>
       (last'.ret = 0 /\ WithKey(mytree', last'.offset) = {})]_vars

\* C5: DELETE on an offset that has no Region returns 0 and leaves the
\* index (and everything else) unchanged; a second DELETE of the same
\* offset gives the same result and the same index as the first.
C5_DeleteAbsentIdempotent ==
  /\ [][(last'.op = "delete" /\ Regions(last'.offset) = {}) =>
          (last'.ret = 0 /\ UNCHANGED <<mytree, np_lock, pc, vmas>>)]_vars
  /\ [](\A o \in Offsets : Regions(o) = {} =>
          LET once == npheap_delete(mytree, [offset |-> o])
              twice == npheap_delete(once.t, [offset |-> o])
          IN  once.ret = 0 /\ twice = once)

\* C5's case: a DELETE of an offset without a Region has returned, with
\* other Regions in the index.
C5_Witness ==
  /\ last.op = "delete" /\ last.ret = 0
  /\ Regions(last.offset) = {}
  /\ InTree(mytree) # {}

\* C6: the index holds at most one Region record per offset.
C6_Uniqueness ==
  \A i \in InTree(mytree), j \in InTree(mytree) :
    mytree.n[i].keystring = mytree.n[j].keystring => i = j

\* C7: the comparison of my_search and my_insert is negative, zero or
\* positive exactly as a < b, a = b or a > b in unsigned order.
C7_UnsignedOrder ==
  cmp.done =>
    /\ (cmp.result < 0) <=> (cmp.a < cmp.b)
    /\ (cmp.result = 0) <=> (cmp.a = cmp.b)
    /\ (cmp.result > 0) <=> (cmp.a > cmp.b)

Blocked == {t \in Threads : pc[t] # "user"}
Running == {t \in Threads : pc[t] = "running"}

\* C9: LOCK returns only from a state where the mutex is free and leaves it
\* held; only UNLOCK frees it; a caller that issues LOCK while it is held
\* blocks, and a sleeping caller is not woken by anything but an UNLOCK.
C9_BinaryLock ==
  [][/\ last'.op = "lock" => (~np_lock.locked /\ np_lock'.locked)
     /\ (np_lock.locked /\ last'.op # "unlock") => np_lock'.locked
     /\ \A t \in Threads :
          /\ (pc[t] # "user" /\ pc'[t] = "user") =>
               (last'.op = "lock" /\ last'.t = t)
          /\ (pc[t] = "user" /\ np_lock.locked /\ last'.t = t
                /\ last'.op \in {"lock", "lock_sleep"}) =>
               (last'.op = "lock_sleep" /\ pc'[t] = "sleeping")
          /\ (pc[t] = "sleeping" /\ pc'[t] # "sleeping") =>
               last'.op = "unlock"]_vars

\* C9's case: a LOCK has returned while another caller is blocked in LOCK.
C9_Witness ==
  /\ last.op = "lock" /\ np_lock.locked
  /\ \E t \in Threads : pc[t] = "sleeping"

\* C10: UNLOCK leaves the mutex free; with n >= 1 callers blocked in LOCK
\* it leaves exactly one of them able to return (the others asleep), with
\* none blocked it changes nothing else; only a woken caller returns from
\* LOCK, and never more than one caller is awake inside LOCK.
C10_UnlockWakesOne ==
  /\ [][/\ last'.op = "unlock" =>
             /\ ~np_lock'.locked
             /\ np_lock'.wait_list = np_lock.wait_list
             /\ \A t \in Threads : pc[t] = "user" => pc'[t] = "user"
             /\ Blocked # {} =>
                  /\ Cardinality({t \in Blocked : pc'[t] = "running"}) = 1
                  /\ Cardinality({t \in Blocked : pc'[t] = "sleeping"}) =
                       Cardinality(Blocked) - 1
             /\ Blocked = {} => pc' = pc
        /\ \A t \in Threads :
             (pc[t] # "user" /\ pc'[t] = "user") => pc[t] = "running"]_vars
  /\ [](Cardinality(Running) <= 1)

\* C10's case: an UNLOCK has returned with two or more callers blocked.
C10_Witness ==
  /\ last.op = "unlock"
  /\ Cardinality(Blocked) >= 2

\* C11: A has just issued UNLOCK, nobody is left who took the mutex without
\* releasing it, and B is the only caller blocked in LOCK (now awake, the
\* mutex free): a LOCK that returns next to a caller other than A is B's,
\* not the LOCK of a third caller that issues it only now.
C11_FifoLite ==
  [][(/\ last.op = "unlock" /\ holds = {} /\ ~np_lock.locked
      /\ Len(np_lock.wait_list) = 1
      /\ Head(np_lock.wait_list) # last.t
      /\ pc[Head(np_lock.wait_list)] = "running"
      /\ last'.op = "lock" /\ last'.t # last.t) =>
       last'.t = Head(np_lock.wait_list)]_vars

\* C12: UNLOCK issued while the mutex is not held fails (does not return 0)
\* and leaves the lock state unchanged.
C12_UnlockNotHeldFails ==
  [][(last'.op = "unlock" /\ ~np_lock.locked) =>
       (last'.ret # 0 /\ np_lock' = np_lock /\ pc' = pc)]_vars

\* C13: UNLOCK checks no holder: issued by a caller that did not take the
\* mutex (it is not the owner, its own LOCK has not returned) it returns 0
\* and leaves the mutex free, and the callers that took it are not told.
C13_AnyCallerUnlocks ==
  [][(last'.op = "unlock" /\ np_lock.locked /\ np_lock.owner # last'.t
        /\ last'.t \notin holds) =>
       (last'.ret = 0 /\ ~np_lock'.locked /\ holds' = holds)]_vars

\* C13's case: a second caller's LOCK has returned while the first holder
\* has not issued UNLOCK itself: two callers are past LOCK at once.
C13_Witness ==
  /\ last.op = "lock" /\ last.t \in holds
  /\ Cardinality(holds) >= 2

\* C16: in every state each offset that has live mappings has its Region in
\* the index, the one record whose ref_count is the number of those
\* mappings; a teardown that leaves no mapping leaves that Region in place.
C16_RefCountIsLiveMappings ==
  /\ \A o \in Offsets : vmas[o] > 0 => Cardinality(Regions(o)) = 1
  /\ last.op = "munmap" => Regions(last.offset) # {}

\* The callers that have touched page 0 of offset o, and the pages they got.
Faulted(o) == {f.c : f \in faulters[o]}
PagesOf(o) == {f.page : f \in faulters[o]}

\* C14: when two or more callers have touched the same page of the same
\* Region, one physical page stands for that page index and every one of
\* the callers got that page.
C14_ConcurrentFaultOnePage ==
  \A o \in Offsets :
    (Regions(o) # {} /\ Cardinality(Faulted(o)) >= 2) =>
      (Cardinality(PagesOf(o)) = 1 /\ NULL \notin PagesOf(o))

\* C15: a resolve of page 0 of a Region returns a page, and it is the page
\* every earlier resolve of that (Region, page index) returned, whatever
\* happened in between short of a DELETE.
C15_DemandPagingIdempotent ==
  [][(last'.op = "fault" /\ Regions(last'.offset) # {}) =>
       /\ last'.ret # NULL
       /\ \A f \in faulters[last'.offset] : f.page = last'.ret]_vars

\* The callers inside or past a mapping request for offset o that met no
\* record in its lookup.
Requested(o, st) ==
  {c \in Callers : req[c].st \in st /\ req[c].offset = o /\ ~req[c].found}

\* C17: while another caller holds the mutex, a caller in user mode can
\* issue UNLOCK, GETSIZE, DELETE and a mapping request and each completes;
\* none of these calls puts a caller to sleep: only LOCK does.
C17_OnlyLockWaits ==
  /\ [](\A t \in Threads :
          (np_lock.locked /\ np_lock.owner # t /\ pc[t] = "user") =>
            ENABLED Unlock(t))
  /\ []((\E t \in Threads :
           np_lock.locked /\ np_lock.owner # t /\ pc[t] = "user") =>
          /\ \A o \in DeviceOffsets : ENABLED Getsize(o) /\ ENABLED Delete(o)
          /\ \A vma \in DeviceVMAs :
               vmas[vma_offset(vma)] < MaxMaps => ENABLED Mmap(vma))
  /\ [][last'.op \in {"unlock", "getsize", "delete", "mmap"} =>
          \A t \in Threads : pc[t] = "user" => pc'[t] = "user"]_vars

\* C17's case: a GETSIZE, DELETE or mapping request has returned while the
\* mutex is held and another caller is asleep waiting for it.
C17_Witness ==
  /\ last.op \in {"getsize", "delete", "mmap"}
  /\ np_lock.locked
  /\ \E t \in Threads : pc[t] = "sleeping"
  /\ \E t \in Threads : pc[t] = "user" /\ np_lock.owner # t

\* C18: of two mapping requests for the same new offset, one does not run
\* its lookup between the lookup and the insert of the other, and once both
\* have returned the index holds exactly one Region for the offset.
C18_FindOrInsertAtomic ==
  \A o \in Offsets :
    /\ Cardinality(Requested(o, {"looked"})) <= 1
    /\ Cardinality(Requested(o, {"mapped"})) >= 2 =>
         Cardinality(Regions(o)) = 1

\* C19: whatever my_insert and rb_erase calls came before, my_search(k)
\* returns a record with key k when the tree holds one and NULL when it
\* holds none.
C19_SearchFindsPresent ==
  \A k \in Offsets :
    IF WithKey(mytree, k) # {}
      THEN my_search(mytree, k) \in WithKey(mytree, k)
      ELSE my_search(mytree, k) = NULL

\* The keys an in-order walk from x visits (rb_first / rb_next order).
RECURSIVE InOrder(_, _)
InOrder(T, x) ==
  IF x = NULL THEN <<>>
  ELSE InOrder(T, T.n[x].left) \o <<T.n[x].keystring>> \o InOrder(T, T.n[x].right)

\* C20: my_insert returns 0 exactly when the tree already holds a record
\* with the key, and then the tree is as before; otherwise it returns 1, the
\* tree holds the records it held plus one new record with the key, and the
\* in-order walk visits the keys in strictly increasing order.
C20_InsertContract ==
  [][last'.op = "my_insert" =>
       LET k == last'.offset
           walk == InOrder(mytree', mytree'.root)
       IN  /\ last'.ret = 0 <=> WithKey(mytree, k) # {}
           /\ last'.ret = 0 => mytree' = mytree
           /\ last'.ret # 0 =>
                /\ last'.ret = 1
                /\ \A i \in InTree(mytree) :
                     /\ i \in InTree(mytree')
                     /\ mytree'.n[i].keystring = mytree.n[i].keystring
                     /\ mytree'.n[i].size = mytree.n[i].size
                /\ Cardinality(InTree(mytree') \ InTree(mytree)) = 1
                /\ Cardinality(WithKey(mytree', k)) = 1
                /\ Len(walk) = Cardinality(InTree(mytree'))
                /\ \A i \in 1 .. Len(walk) - 1 : walk[i] < walk[i + 1]]_vars

====
